---- MODULE Spec2Model ----
(***************************************************************************)
(* Model of the directory-size scan of Search-tool (scanDirectory in the   *)
(* history-keeping web server, the same pipeline as main.go and the        *)
(* command-line scanDirectoryCLI): validation, the WalkDir producer, the   *)
(* pool of workers folding file sizes into ancestor directories under      *)
(* dirMutex, the close / wg.Wait barrier, and the reducer that builds the  *)
(* sorted listing and appends the history record.                          *)
(*                                                                         *)
(* A path string is a sequence of tokens: the separator "/" and the names  *)
(* between separators, so "/d/s/" is <<"/","d","/","s","/">> and "" is     *)
(* <<>>.  A node of the file system is the sequence of names from the      *)
(* file-system root, so /d/s is <<"d","s">>.                               *)
(***************************************************************************)
EXTENDS Integers, Sequences, FiniteSets, TLC

(***************************************************************************)
(* Bounds of the model.                                                    *)
(***************************************************************************)
\* Largest size of a regular file; every file takes every size in 0..MaxSize.
MaxSize == 1
\* Capacity of workChan in the model (1024 in the source); small, so that
\* the walker blocks on a full queue.
QueueCap == 1

(***************************************************************************)
(* Program constants.                                                      *)
(***************************************************************************)
numWorkers == 4

(***************************************************************************)
(* Paths: path/filepath on a slash-separated system.                       *)
(***************************************************************************)
Sep == "/"

IsAbs(p) == Len(p) > 0 /\ p[1] = Sep

\* The names of a path, separators dropped.
Elements(p) == SelectSeq(p, LAMBDA t : t # Sep)

\* Names joined by single separators.
RECURSIVE JoinElements(_)
JoinElements(es) ==
    IF Len(es) = 0 THEN <<>>
    ELSE IF Len(es) = 1 THEN <<es[1]>>
    ELSE <<es[1], Sep>> \o JoinElements(Tail(es))

\* The lexical processing of filepath.Clean on the names of a path: "." is
\* dropped, ".." removes the name before it, a ".." that would climb above a
\* rooted path is dropped and one that climbs above a relative path is kept.
RECURSIVE CleanElements(_, _, _)
CleanElements(es, out, rooted) ==
    IF Len(es) = 0 THEN out
    ELSE LET e == es[1]
             rest == Tail(es)
         IN IF e = "." THEN CleanElements(rest, out, rooted)
            ELSE IF e = ".."
                 THEN IF Len(out) > 0 /\ out[Len(out)] # ".."
                      THEN CleanElements(rest, SubSeq(out, 1, Len(out) - 1), rooted)
                      ELSE IF rooted
                           THEN CleanElements(rest, out, rooted)
                           ELSE CleanElements(rest, Append(out, ".."), rooted)
                 ELSE CleanElements(rest, Append(out, e), rooted)

\* filepath.Clean: the shortest equivalent path; "" becomes ".", repeated
\* and trailing separators go, the root stays "/".
Clean(p) ==
    LET rooted == IsAbs(p)
        body == JoinElements(CleanElements(Elements(p), <<>>, rooted))
        out == IF rooted THEN <<Sep>> \o body ELSE body
    IN IF Len(out) = 0 THEN <<".">> ELSE out

\* Index of the last separator of p, 0 when there is none.
LastSep(p) ==
    LET S == {i \in 1..Len(p) : p[i] = Sep}
    IN IF S = {} THEN 0 ELSE CHOOSE i \in S : \A j \in S : j <= i

\* filepath.Dir: everything up to and including the last separator, cleaned.
Dir(p) == Clean(SubSeq(p, 1, LastSep(p)))

\* filepath.Join(p, name) for a non-empty p: joined by a separator, cleaned.
Join(p, name) == Clean(p \o <<Sep, name>>)

\* Length of the longest common prefix of two sequences of names.
RECURSIVE CommonPrefix(_, _)
CommonPrefix(a, b) ==
    IF Len(a) = 0 \/ Len(b) = 0 \/ a[1] # b[1] THEN 0
    ELSE 1 + CommonPrefix(Tail(a), Tail(b))

\* filepath.Rel(base, targ) for two paths that are both absolute or both
\* relative: ".." for every name of base after the common prefix, then the
\* rest of targ; "." when they are the same.
Rel(base, targ) ==
    LET b == SelectSeq(Elements(Clean(base)), LAMBDA t : t # ".")
        t == SelectSeq(Elements(Clean(targ)), LAMBDA x : x # ".")
        k == CommonPrefix(b, t)
        ups == [i \in 1..(Len(b) - k) |-> ".."]
        out == JoinElements(ups \o SubSeq(t, k + 1, Len(t)))
    IN IF Len(out) = 0 THEN <<".">> ELSE out

(***************************************************************************)
(* The file system the scan runs against.  The process's working directory *)
(* is /d.  /d holds the file a, the directory s (file c and directory t    *)
(* with file e) and the empty directory u.                                 *)
(***************************************************************************)
Cwd == <<"d">>

DirNodes == {<<>>, <<"d">>, <<"d", "s">>, <<"d", "s", "t">>, <<"d", "u">>}

FileNodes == {<<"d", "a">>, <<"d", "s", "c">>, <<"d", "s", "t", "e">>}

\* Names in the order os.ReadDir returns them (sorted by file name).
NameOrder == <<"a", "c", "d", "e", "s", "t", "u">>

\* The sets of entries whose metadata or listing cannot be read during the
\* walk: d.Info() fails for a file, os.ReadDir fails for a directory.
NoAccessSets == {{}, {<<"d", "a">>}, {<<"d", "s", "t">>}}

\* The node a path names: relative paths start at the working directory.
Node(p) ==
    IF IsAbs(p) THEN CleanElements(Elements(p), <<>>, TRUE)
    ELSE CleanElements(Cwd \o Elements(p), <<>>, TRUE)

\* The names of the children of a directory node, in ReadDir order.
ChildNames(n) ==
    SelectSeq(NameOrder, LAMBDA x : Append(n, x) \in DirNodes \cup FileNodes)

\* os.Stat(p): resolves the path name by name from the root.  "dir" and
\* "file" are successes; ENOENT is the error os.IsNotExist recognises;
\* ENOTDIR (a name below a regular file) is a failure it does not.
RECURSIVE StatFrom(_, _, _)
StatFrom(n, k, trailing) ==
    LET prefix == SubSeq(n, 1, k)
    IN IF prefix \in DirNodes
       THEN IF k = Len(n) THEN "dir" ELSE StatFrom(n, k + 1, trailing)
       ELSE IF prefix \in FileNodes
            THEN IF k = Len(n) /\ ~trailing THEN "file" ELSE "ENOTDIR"
            ELSE "ENOENT"

Stat(p) ==
    IF Len(p) = 0 THEN "ENOENT"
    ELSE StatFrom(Node(p), 0, Len(p) > 1 /\ p[Len(p)] = Sep)

\* The paths a caller supplies.
Paths ==
    { <<>>,                                   \* ""
      <<"/", "d">>,                           \* "/d"
      <<"/", "d", "/">>,                      \* "/d/"
      <<".">>,                                \* "."
      <<"s">>,                                \* "s"
      <<".", "/", "s">>,                      \* "./s"
      <<"u">>,                                \* "u", an empty directory
      <<"/", "x">>,                           \* "/x", does not exist
      <<"a">>,                                \* "a", a regular file
      <<"/", "d", "/", "a", "/", "x">> }      \* "/d/a/x", below a regular file

\* The pool sizes the scan is run with: the source's and a single worker.
PoolSizes == {1, numWorkers}

Workers == 1..numWorkers

(***************************************************************************)
(* Maps with Go's semantics: a missing key reads as zero.                  *)
(***************************************************************************)
EmptyMap == [k \in {} |-> 0]

Get(m, k) == IF k \in DOMAIN m THEN m[k] ELSE 0

Put(m, k, v) == [x \in DOMAIN m \cup {k} |-> IF x = k THEN v ELSE m[x]]

\* One more occurrence of k in a count of tasks per path.
Incr(m, k) == Put(m, k, Get(m, k) + 1)

\* if _, ok := dirSizes[currentPath]; !ok { dirSizes[currentPath] = 0 }
\* A registration that sets every total back to zero.
RegisterClears(m, k) == [x \in DOMAIN m \cup {k} |-> 0]

Register(m, k) == IF k \in DOMAIN m THEN m ELSE Put(m, k, 0)

(***************************************************************************)
(* formatSize: the number before the unit is <<whole, tenths>>; tenths is  *)
(* -1 for the integer form "<n> B".  "%.1f" rounds the exact quotient half *)
(* to even.  The division by a power of two is exact in float64, so the    *)
(* quotient is the rational bytes / unitBytes; the arithmetic below keeps  *)
(* every intermediate value under 2^31.                                    *)
(***************************************************************************)
\* q + r / d rounded to an integer, half to even, for 0 <= r < d.
RoundHalfEven(q, r, d) ==
    IF r < d - r THEN q
    ELSE IF r > d - r THEN q + 1
    ELSE IF q % 2 = 0 THEN q ELSE q + 1

\* 10 * bytes / unitBytes rounded half to even: the quotient in tenths.
\* With bytes = q * unitBytes + r and r = a * K + b for K = unitBytes / 1024,
\* 10 * r / unitBytes = (10 * a) / 1024 + (10 * b) / unitBytes.
Tenths(bytes, unitBytes) ==
    LET q == bytes \div unitBytes
        r == bytes % unitBytes
        K == unitBytes \div 1024
        a == r \div K
        b == r % K
        i == (10 * a) \div 1024
        j == (10 * a) % 1024
        M == j * K + 10 * b
    IN RoundHalfEven(10 * q + i + M \div unitBytes, M % unitBytes, unitBytes)

OneDecimal(bytes, unitBytes, unit) ==
    LET t == Tenths(bytes, unitBytes)
    IN [whole |-> t \div 10, tenths |-> t % 10, unit |-> unit]

\* formatSize with the thresholds compared by <=.
formatSizeInclusive(bytes) ==
    IF bytes <= 1024 THEN [whole |-> bytes, tenths |-> -1, unit |-> "B"]
    ELSE IF bytes <= 1024 * 1024 THEN OneDecimal(bytes, 1024, "KB")
    ELSE IF bytes <= 1024 * 1024 * 1024 THEN OneDecimal(bytes, 1024 * 1024, "MB")
    ELSE OneDecimal(bytes, 1024 * 1024 * 1024, "GB")

formatSize(bytes) ==
    IF bytes < 1024 THEN [whole |-> bytes, tenths |-> -1, unit |-> "B"]
    ELSE IF bytes < 1024 * 1024 THEN OneDecimal(bytes, 1024, "KB")
    ELSE IF bytes < 1024 * 1024 * 1024 THEN OneDecimal(bytes, 1024 * 1024, "MB")
    ELSE OneDecimal(bytes, 1024 * 1024 * 1024, "GB")

(***************************************************************************)
(* State.                                                                  *)
(***************************************************************************)
VARIABLES
    path,        \* the path the caller passed to scanDirectory
    fsize,       \* the size of every regular file of the file system
    noaccess,    \* the entries that cannot be read during the walk
    poolSize,    \* the number of workers started
    variant,     \* which of the three programs runs the scan
    pc,          \* where scanDirectory is
    err,         \* the error returned, "" for nil
    result,      \* the ScanResult returned, <<>> for nil
    allocated,   \* whether the maps and the channel have been made
    dirSizes,    \* directory path -> cumulative size
    fileSizes,   \* file path -> size
    workChan,    \* the buffered tasks
    closed,      \* whether workChan is closed
    wg,          \* the WaitGroup counter
    dirMutex,    \* 0 when free, else the worker holding it
    walk,        \* the entries WalkDir has still to visit, next first
    wpc,         \* where each worker is
    wtask,       \* the task each worker holds
    currentDir,  \* the directory each worker's upward walk is at
    loaded,      \* the value each worker read from dirSizes[currentDir]
    received,    \* task path -> how many times a worker received it
    applied,     \* task path -> how many upward walks finished for it
    items,       \* the listing being built
    totalSize,   \* the running total of the listing
    history,     \* the history log
    clock,       \* how many times time.Now() was read for a history record
    log,         \* every history record ever appended, oldest first
    historyMutex,\* "" when free, else the request holding the write lock
    hpc,         \* where each request handler of the server is
    hreq,        \* the path each request in progress carries
    reply,       \* the response written by the step just taken, if any
    fmtIn,       \* the byte count handed to formatSize
    fmtOut       \* what formatSize returned for it

vars == <<path, fsize, noaccess, poolSize, variant, pc, err, result, allocated,
          dirSizes, fileSizes, workChan, closed, wg, dirMutex, walk, wpc,
          wtask, currentDir, loaded, received, applied, items, totalSize,
          history, clock, log, historyMutex, hpc, hreq, reply, fmtIn, fmtOut>>

clientVars == <<historyMutex, hpc, hreq, reply>>

fmtVars == <<fmtIn, fmtOut>>

scanVars == <<allocated, dirSizes, fileSizes, workChan, closed, wg, dirMutex,
              walk, wpc, wtask, currentDir, loaded, received, applied>>

inputVars == <<path, fsize, noaccess, poolSize, variant>>

\* The three programs with the scan: the command-line tool, the web server
\* and the web server that keeps a history.
Variants == {"cli", "web", "webhist"}

\* A web server whose scan always appends to history.
KeepsHistoryAlways(v) == TRUE

\* Only the history-keeping server has the append at the end of the scan.
KeepsHistory(v) == v = "webhist"

NoTask == [path |-> <<>>, size |-> 0]

rootDir == path

\* The requests the server handles at the same time.
HClients == {"c1", "c2"}

NoReply == [kind |-> "none"]

NoOutput == [whole |-> -1, tenths |-> -1, unit |-> ""]

\* scanDirectory has not been called.
InitScan ==
    /\ pc = "start"
    /\ err = ""
    /\ result = <<>>
    /\ allocated = FALSE
    /\ dirSizes = EmptyMap
    /\ fileSizes = EmptyMap
    /\ workChan = <<>>
    /\ closed = FALSE
    /\ wg = 0
    /\ dirMutex = 0
    /\ walk = <<>>
    /\ wpc = [w \in Workers |-> "off"]
    /\ wtask = [w \in Workers |-> NoTask]
    /\ currentDir = [w \in Workers |-> <<>>]
    /\ loaded = [w \in Workers |-> 0]
    /\ received = EmptyMap
    /\ applied = EmptyMap
    /\ items = <<>>
    /\ totalSize = 0

\* The server has just started: the log is empty and no request is running.
InitServer ==
    /\ history = <<>>
    /\ clock = 0
    /\ log = <<>>
    /\ historyMutex = ""
    /\ hpc = [c \in HClients |-> "idle"]
    /\ hreq = [c \in HClients |-> <<>>]
    /\ reply = NoReply

InitFormat ==
    /\ fmtIn = 0
    /\ fmtOut = NoOutput

Init ==
    /\ path \in Paths
    /\ fsize \in [FileNodes -> 0..MaxSize]
    /\ noaccess \in NoAccessSets
    /\ poolSize \in PoolSizes
    /\ variant = "webhist"
    /\ InitScan
    /\ InitServer
    /\ InitFormat

(***************************************************************************)
(* scanDirectory: validation.                                              *)
(***************************************************************************)
\* validate without the fileInfo.IsDir() check.
validateNoDirCheck(p) ==
    IF Len(p) = 0 THEN "EmptyPath"
    ELSE LET st == Stat(p)
         IN IF st = "ENOENT" THEN "NotFound"
            ELSE IF st = "ENOTDIR" THEN "panic"
            ELSE "ok"

\* The outcome of the checks before the scan: the kind of the error
\* returned, "ok", or "panic" when os.Stat fails with an error that
\* os.IsNotExist does not recognise, so fileInfo is nil at fileInfo.IsDir().
validate(p) ==
    IF Len(p) = 0 THEN "EmptyPath"
    ELSE LET st == Stat(p)
         IN IF st = "ENOENT" THEN "NotFound"
            ELSE IF st = "ENOTDIR" THEN "panic"
            ELSE IF st # "dir" THEN "NotADirectory"
            ELSE "ok"

Validate ==
    /\ pc = "start"
    /\ LET v == validate(path)
       IN /\ pc' = IF v = "ok" THEN "setup"
                   ELSE IF v = "panic" THEN "panic"
                   ELSE IF variant = "cli" THEN "exited" ELSE "failed"
          /\ err' = IF v \in {"ok", "panic"} THEN "" ELSE v
    /\ UNCHANGED <<inputVars, clientVars, fmtVars, scanVars, result, items, totalSize, history, clock, log>>

(***************************************************************************)
(* scanDirectory: the maps, the channel and the worker pool are made, and  *)
(* WalkDir starts at the root as the caller spelled it.                    *)
(***************************************************************************)
Setup ==
    /\ pc = "setup"
    /\ allocated' = TRUE
    /\ dirSizes' = EmptyMap
    /\ fileSizes' = EmptyMap
    /\ workChan' = <<>>
    /\ wg' = poolSize
    /\ wpc' = [w \in Workers |-> IF w <= poolSize THEN "recv" ELSE "off"]
    /\ walk' = <<[p |-> rootDir, n |-> Node(rootDir)]>>
    /\ pc' = "walk"
    /\ UNCHANGED <<inputVars, clientVars, fmtVars, err, result, closed, dirMutex, wtask, currentDir,
                   loaded, received, applied, items, totalSize, history, clock, log>>

(***************************************************************************)
(* The walker: the WalkDir callback on the next entry.                     *)
(***************************************************************************)
\* The entries WalkDir visits below a directory entry, in order.
ChildEntries(e) ==
    LET names == ChildNames(e.n)
    IN [i \in 1..Len(names) |->
           [p |-> Join(e.p, names[i]), n |-> Append(e.n, names[i])]]

\* A mutex that never blocks.
MutexIgnored == TRUE

\* dirMutex.Lock() returns only while no one holds the mutex.
MutexFree == dirMutex = 0

\* A directory: registered under dirMutex; then its listing is read, and a
\* listing that cannot be read yields no children (the callback's second
\* call, with the error, returns nil).
WalkDirEntry ==
    /\ pc = "walk"
    /\ walk # <<>>
    /\ LET e == Head(walk)
       IN /\ e.n \in DirNodes
          /\ MutexFree
          /\ dirSizes' = Register(dirSizes, e.p)
          /\ walk' = IF e.n \in noaccess THEN Tail(walk)
                     ELSE ChildEntries(e) \o Tail(walk)
    /\ UNCHANGED <<inputVars, clientVars, fmtVars, pc, err, result, allocated, fileSizes, workChan,
                   closed, wg, dirMutex, wpc, wtask, currentDir, loaded,
                   received, applied, items, totalSize, history, clock, log>>

\* A file whose Info() succeeds: its size is recorded and the task is sent;
\* the send blocks while the channel is full.
WalkFileEntry ==
    /\ pc = "walk"
    /\ walk # <<>>
    /\ LET e == Head(walk)
       IN /\ e.n \in FileNodes
          /\ e.n \notin noaccess
          /\ Len(workChan) < QueueCap
          /\ fileSizes' = Put(fileSizes, e.p, fsize[e.n])
          /\ workChan' = Append(workChan, [path |-> e.p, size |-> fsize[e.n]])
          /\ walk' = Tail(walk)
    /\ UNCHANGED <<inputVars, clientVars, fmtVars, pc, err, result, allocated, dirSizes, closed, wg,
                   dirMutex, wpc, wtask, currentDir, loaded, received, applied,
                   items, totalSize, history, clock, log>>

\* A file whose Info() fails ends the scan with an error.
WalkSkipAborts ==
    /\ pc = "walk"
    /\ walk # <<>>
    /\ LET e == Head(walk)
       IN /\ e.n \in FileNodes
          /\ e.n \in noaccess
    /\ pc' = "failed"
    /\ err' = "TraversalError"
    /\ UNCHANGED <<inputVars, clientVars, fmtVars, scanVars, result, items, totalSize, history, clock, log>>

\* A file whose Info() fails is skipped.
WalkSkipEntry ==
    /\ pc = "walk"
    /\ walk # <<>>
    /\ LET e == Head(walk)
       IN /\ e.n \in FileNodes
          /\ e.n \in noaccess
          /\ walk' = Tail(walk)
    /\ UNCHANGED <<inputVars, clientVars, fmtVars, pc, err, result, allocated, dirSizes, fileSizes,
                   workChan, closed, wg, dirMutex, wpc, wtask, currentDir,
                   loaded, received, applied, items, totalSize, history, clock, log>>

\* The scan goes on to wg.Wait() without closing the channel.
CloseSkipped ==
    /\ pc = "walk"
    /\ walk = <<>>
    /\ pc' = "wait"
    /\ UNCHANGED <<inputVars, clientVars, fmtVars, scanVars, err, result, items, totalSize, history, clock, log>>

\* A close that does not wait for WalkDir to return.
CloseEarly ==
    /\ pc = "walk"
    /\ closed' = TRUE
    /\ pc' = "wait"
    /\ UNCHANGED <<inputVars, clientVars, fmtVars, err, result, allocated, dirSizes, fileSizes,
                   workChan, wg, dirMutex, walk, wpc, wtask, currentDir,
                   loaded, received, applied, items, totalSize, history, clock, log>>

\* WalkDir has returned nil: close(workChan).
CloseChan ==
    /\ pc = "walk"
    /\ walk = <<>>
    /\ closed' = TRUE
    /\ pc' = "wait"
    /\ UNCHANGED <<inputVars, clientVars, fmtVars, err, result, allocated, dirSizes, fileSizes,
                   workChan, wg, dirMutex, walk, wpc, wtask, currentDir,
                   loaded, received, applied, items, totalSize, history, clock, log>>

\* A Wait that returns at once.
WaitNoBarrier == TRUE

\* wg.Wait() returns once the counter is zero.
WaitReturns == wg = 0

Wait ==
    /\ pc = "wait"
    /\ WaitReturns
    /\ pc' = "reduce"
    /\ UNCHANGED <<inputVars, clientVars, fmtVars, scanVars, err, result, items, totalSize, history, clock, log>>

(***************************************************************************)
(* The workers: for task := range workChan { ... }                         *)
(***************************************************************************)
\* A receive that leaves the task in the channel.
DequeueKeep(q) == q

\* The channel after a receive.
Dequeue(q) == Tail(q)

Receive(w) ==
    /\ wpc[w] = "recv"
    /\ workChan # <<>>
    /\ wtask' = [wtask EXCEPT ![w] = Head(workChan)]
    /\ workChan' = Dequeue(workChan)
    /\ received' = Incr(received, Head(workChan).path)
    /\ wpc' = [wpc EXCEPT ![w] = "lock"]
    /\ UNCHANGED <<inputVars, clientVars, fmtVars, pc, err, result, allocated, dirSizes, fileSizes,
                   closed, wg, dirMutex, walk, currentDir, loaded, applied,
                   items, totalSize, history, clock, log>>

\* The range loop ends when the channel is closed and drained; wg.Done().
Return(w) ==
    /\ wpc[w] = "recv"
    /\ workChan = <<>>
    /\ closed
    /\ wpc' = [wpc EXCEPT ![w] = "done"]
    /\ wg' = wg - 1
    /\ UNCHANGED <<inputVars, clientVars, fmtVars, pc, err, result, allocated, dirSizes, fileSizes,
                   workChan, closed, dirMutex, walk, wtask, currentDir,
                   loaded, received, applied, items, totalSize, history, clock, log>>

\* dirPath := filepath.Dir(task.path); dirMutex.Lock(); currentDir := dirPath
Lock(w) ==
    /\ wpc[w] = "lock"
    /\ MutexFree
    /\ dirMutex' = w
    /\ currentDir' = [currentDir EXCEPT ![w] = Dir(wtask[w].path)]
    /\ wpc' = [wpc EXCEPT ![w] = "load"]
    /\ UNCHANGED <<inputVars, clientVars, fmtVars, pc, err, result, allocated, dirSizes, fileSizes,
                   workChan, closed, wg, walk, wtask, loaded, received, applied,
                   items, totalSize, history, clock, log>>

\* A loop without the parent-is-self guard.
AtTopRootOnly(d) == d = rootDir

\* Whether the upward walk stops after crediting directory d.
AtTop(d) == d = rootDir \/ Dir(d) = d

\* dirSizes[currentDir] += task.size, first half: the current value is
\* read (zero for a missing key).
Load(w) ==
    /\ wpc[w] = "load"
    /\ loaded' = [loaded EXCEPT ![w] = Get(dirSizes, currentDir[w])]
    /\ wpc' = [wpc EXCEPT ![w] = "store"]
    /\ UNCHANGED <<inputVars, clientVars, fmtVars, pc, err, result, allocated, dirSizes, fileSizes,
                   workChan, closed, wg, dirMutex, walk, wtask, currentDir,
                   received, applied, items, totalSize, history, clock, log>>

\* The value a worker stores back: what it read plus the task's size.
Sum(old, size) == old + size

\* A loop body that unlocks after every addition, not after the walk.
StoreUnlocksEarly(w) ==
    /\ wpc[w] = "store"
    /\ dirSizes' = Put(dirSizes, currentDir[w], Sum(loaded[w], wtask[w].size))
    /\ loaded' = [loaded EXCEPT ![w] = 0]
    /\ dirMutex' = 0
    /\ IF AtTop(currentDir[w])
       THEN /\ wpc' = [wpc EXCEPT ![w] = "recv"]
            /\ applied' = Incr(applied, wtask[w].path)
            /\ wtask' = [wtask EXCEPT ![w] = NoTask]
            /\ currentDir' = [currentDir EXCEPT ![w] = <<>>]
       ELSE /\ currentDir' = [currentDir EXCEPT ![w] = Dir(currentDir[w])]
            /\ wpc' = [wpc EXCEPT ![w] = "load"]
            /\ UNCHANGED <<applied, wtask>>
    /\ UNCHANGED <<inputVars, clientVars, fmtVars, pc, err, result, allocated, fileSizes, workChan,
                   closed, wg, walk, received, items, totalSize, history, clock, log>>

\* Second half of the addition and the rest of the loop body: the sum is
\* stored; on a break the mutex is released and the worker goes back to the
\* channel, otherwise it moves to the parent directory.
Store(w) ==
    /\ wpc[w] = "store"
    /\ dirSizes' = Put(dirSizes, currentDir[w], Sum(loaded[w], wtask[w].size))
    /\ loaded' = [loaded EXCEPT ![w] = 0]
    /\ IF AtTop(currentDir[w])
       THEN /\ dirMutex' = 0
            /\ wpc' = [wpc EXCEPT ![w] = "recv"]
            /\ applied' = Incr(applied, wtask[w].path)
            /\ wtask' = [wtask EXCEPT ![w] = NoTask]
            /\ currentDir' = [currentDir EXCEPT ![w] = <<>>]
       ELSE /\ currentDir' = [currentDir EXCEPT ![w] = Dir(currentDir[w])]
            /\ wpc' = [wpc EXCEPT ![w] = "load"]
            /\ UNCHANGED <<dirMutex, applied, wtask>>
    /\ UNCHANGED <<inputVars, clientVars, fmtVars, pc, err, result, allocated, fileSizes, workChan,
                   closed, wg, walk, received, items, totalSize, history, clock, log>>

Worker(w) == Receive(w) \/ Return(w) \/ Lock(w) \/ Load(w) \/ Store(w)

(***************************************************************************)
(* The reducer.                                                            *)
(***************************************************************************)
\* The orders in which a range over a map with key set S can yield its keys.
Orders(S) ==
    {s \in [1..Cardinality(S) -> S] : \A i, j \in 1..Cardinality(S) : s[i] = s[j] => i = j}

\* The keys the two collection loops keep.
ChildDirs == {d \in DOMAIN dirSizes : d # rootDir /\ Dir(d) = rootDir}

\* A second loop that keeps no file.
ChildFilesNone == {}

ChildFiles == {f \in DOMAIN fileSizes : Dir(f) = rootDir}

MakeItem(p, size, isDir) ==
    [Path |-> Rel(rootDir, p), Size |-> size,
     SizeFormatted |-> formatSize(size), IsDir |-> isDir]

RECURSIVE SumSizes(_)
SumSizes(s) == IF Len(s) = 0 THEN 0 ELSE s[1].Size + SumSizes(Tail(s))

\* The two loops over dirSizes and fileSizes: items and totalSize.
Collect ==
    /\ pc = "reduce"
    /\ \E ds \in Orders(ChildDirs), fs \in Orders(ChildFiles) :
          /\ items' = [i \in 1..Len(ds) |-> MakeItem(ds[i], dirSizes[ds[i]], TRUE)]
                      \o [i \in 1..Len(fs) |-> MakeItem(fs[i], fileSizes[fs[i]], FALSE)]
          /\ totalSize' = IF variant = "cli" THEN 0 ELSE SumSizes(items')
    /\ pc' = "sort"
    /\ UNCHANGED <<inputVars, clientVars, fmtVars, scanVars, err, result, history, clock, log>>

\* The comparison the other way round.
lessAscending(a, b) == a.Size < b.Size

\* The comparison handed to sort.Slice.
less(a, b) == a.Size > b.Size

\* The outcomes of sort.Slice (not stable): the arrangements of s in which
\* no element is less than one before it.
SortSlice(s) ==
    {[i \in 1..Len(s) |-> s[o[i]]] : o \in
        {o \in Orders(1..Len(s)) :
            \A i, j \in 1..Len(s) : i < j => ~less(s[o[j]], s[o[i]])}}

historyCap == 50

\* The HistoryItem a scan appends.  ScanTime is time.Now(), read while the
\* write lock is held: it is kept as the rank of the reading, which grows
\* from one append to the next.
HistoryRecordNoItems(p, t, total, its) ==
    [Path |-> p, ScanTime |-> t, TotalSize |-> total,
     SizeFormat |-> formatSize(total), Items |-> <<>>]

HistoryRecord(p, t, total, its) ==
    [Path |-> p, ScanTime |-> t, TotalSize |-> total,
     SizeFormat |-> formatSize(total), Items |-> its]

\* The cap that evicts nothing.
TrimNever(h) == h

\* The cap that evicts the newest record.
TrimNewest(h) == IF Len(h) > historyCap THEN SubSeq(h, 1, Len(h) - 1) ELSE h

\* if len(history) > 50 { history = history[1:] }
Trim(h) == IF Len(h) > historyCap THEN Tail(h) ELSE h

\* An append that leaves the log as it was.
AppendHistoryDropped(h, rec) == h

\* history = append(history, ...) followed by the cap.
AppendHistory(h, rec) == Trim(Append(h, rec))

\* sort.Slice, the history record where the program keeps one, and the
\* result: the ScanResult returned by the web servers, the lines printed by
\* the command-line tool (formatSize(item.Size), path and kind of each item).
SortReturn ==
    /\ pc = "sort"
    /\ \E sorted \in SortSlice(items) :
          /\ items' = sorted
          /\ IF KeepsHistory(variant)
             THEN LET rec == HistoryRecord(path, clock + 1, totalSize, sorted)
                  IN /\ historyMutex = ""
                     /\ history' = AppendHistory(history, rec)
                     /\ log' = Append(log, rec)
                     /\ clock' = clock + 1
             ELSE UNCHANGED <<history, log, clock>>
          /\ result' = IF variant = "cli"
                       THEN [Items |-> sorted]
                       ELSE [Items |-> sorted, TotalSize |-> totalSize,
                             TotalSizeFormatted |-> formatSize(totalSize),
                             Path |-> path]
    /\ pc' = "done"
    /\ UNCHANGED <<inputVars, clientVars, fmtVars, scanVars, err, totalSize>>

\* The goroutine that runs scanDirectory.
Coordinator ==
    \/ Validate
    \/ Setup
    \/ WalkDirEntry
    \/ WalkFileEntry
    \/ WalkSkipEntry
    \/ CloseChan
    \/ Wait
    \/ Collect
    \/ SortReturn

Next == Coordinator \/ \E w \in Workers : Worker(w)

Spec == Init /\ [][Next]_vars

\* The scheduler runs every goroutine that can take a step: the coordinator
\* and each worker are weakly fair.  No guard of the scan reads a file size,
\* so the behaviours are explored with every file at the largest size.
LiveInit == Init /\ fsize = [f \in FileNodes |-> MaxSize]

\* Any of the three programs scans a tree whose files have the largest size,
\* each with its pool of numWorkers workers.
AgreeInit ==
    /\ path \in Paths
    /\ fsize = [f \in FileNodes |-> MaxSize]
    /\ noaccess \in NoAccessSets
    /\ poolSize = numWorkers
    /\ variant \in Variants
    /\ InitScan
    /\ InitServer
    /\ InitFormat

AgreeSpec == AgreeInit /\ [][Next]_vars

LiveSpec ==
    /\ LiveInit
    /\ [][Next]_vars
    /\ WF_vars(Coordinator)
    /\ \A w \in Workers : WF_vars(Worker(w))

(***************************************************************************)
(* What a scan of the file system should find, computed from the file      *)
(* system alone.                                                           *)
(***************************************************************************)
RootEntry == [p |-> rootDir, n |-> Node(rootDir)]

\* The entries WalkDir calls back on, from entry e down.
RECURSIVE Visited(_)
Visited(e) ==
    IF e.n \in DirNodes /\ e.n \notin noaccess
    THEN {e} \cup UNION {Visited(ChildEntries(e)[i]) : i \in 1..Len(ChildEntries(e))}
    ELSE {e}

WalkedEntries == Visited(RootEntry)

WalkedDirs == {e \in WalkedEntries : e.n \in DirNodes}

\* The regular files whose metadata the walk can read: the files queued.
QueuedFiles == {e \in WalkedEntries : e.n \in FileNodes /\ e.n \notin noaccess}

\* Node f lies below node d, at any depth.
IsUnder(f, d) == Len(d) < Len(f) /\ SubSeq(f, 1, Len(d)) = d

\* The sum of the sizes of a set of file entries.
RECURSIVE SumFiles(_)
SumFiles(S) ==
    IF S = {} THEN 0
    ELSE LET x == CHOOSE x \in S : TRUE
         IN fsize[x.n] + SumFiles(S \ {x})

\* The sum of the sizes of the queued files below directory node d.
SizeUnder(d) == SumFiles({e \in QueuedFiles : IsUnder(e.n, d)})

\* The direct children of the scanned root that belong in the listing.
DirectChildren ==
    {e \in WalkedDirs \cup QueuedFiles : Len(e.n) = Len(RootEntry.n) + 1}

ChildSize(e) == IF e.n \in DirNodes THEN SizeUnder(e.n) ELSE fsize[e.n]

Returned == pc \in {"done", "failed", "panic"}

(***************************************************************************)
(* formatSize on its own: one call with a byte count from around the unit  *)
(* thresholds, the ties of the rounding and the top of the 32-bit range.   *)
(***************************************************************************)
FormatProbe == 64

FormatInputs ==
    (0..FormatProbe)
    \cup ((1024 - FormatProbe)..(1024 + FormatProbe))
    \cup ((1024 * 1024 - FormatProbe)..(1024 * 1024 + FormatProbe))
    \cup ((1024 * 1024 * 1024 - FormatProbe)..(1024 * 1024 * 1024 + FormatProbe))
    \cup {1280, 1536, 1792, 1310720, 1572864, 1127428915, 1127428916,
          1342177280, 1610612736, 2147483647}

\* No scan is asked for: scanDirectory's inputs are at rest.
InitIdle ==
    /\ path = <<>>
    /\ fsize = [f \in FileNodes |-> 0]
    /\ noaccess = {}
    /\ poolSize = numWorkers
    /\ variant = "webhist"

FormatInit ==
    /\ InitIdle
    /\ InitScan
    /\ InitServer
    /\ fmtIn \in FormatInputs
    /\ fmtOut = NoOutput

Format ==
    /\ fmtOut = NoOutput
    /\ fmtOut' = formatSize(fmtIn)
    /\ UNCHANGED <<inputVars, clientVars, scanVars, pc, err, result, items,
                   totalSize, history, clock, log, fmtIn>>

FormatNext == Format

FormatSpec == FormatInit /\ [][FormatNext]_vars

(***************************************************************************)
(* The server: POST /api/scan, GET /api/history and POST /api/history-item *)
(* handled concurrently over the shared history.  The traversal inside     *)
(* scanDirectory is the subject of Spec; here a scan is the request, the   *)
(* locked append, and the cap with the unlock and the response.  A read    *)
(* handler runs between RLock and RUnlock, where no writer holds the       *)
(* mutex, and is one step.                                                 *)
(***************************************************************************)
MaxScans == 52

CommonPath == <<"u">>

RarePath == <<"s", "/", "t">>

MissingPath == <<"/", "x">>

HistPaths == {CommonPath, RarePath, MissingPath}

\* The paths the k-th scan request may name: the rare path only for the
\* first two scans, so that its records are the first to be evicted.
PathsAt(k) ==
    IF k \in {1, 2} THEN HistPaths ELSE HistPaths \ {RarePath}

RECURSIVE SumNodes(_)
SumNodes(S) ==
    IF S = {} THEN 0
    ELSE LET f == CHOOSE f \in S : TRUE
         IN fsize[f] + SumNodes(S \ {f})

\* What the walk and the workers leave for an entry: the size of a file,
\* the sum of the files below a directory.
TreeSize(n) ==
    IF n \in DirNodes THEN SumNodes({f \in FileNodes : IsUnder(f, n)})
    ELSE fsize[n]

\* The sorted listings scanDirectory(p) can return for a valid p that
\* filepath.Clean leaves unchanged, with every entry readable.
ScanItems(p) ==
    LET kids == ChildNames(Node(p))
        child(i) == Append(Node(p), kids[i])
    IN SortSlice([i \in 1..Len(kids) |->
                    [Path |-> <<kids[i]>>, Size |-> TreeSize(child(i)),
                     SizeFormatted |-> formatSize(TreeSize(child(i))),
                     IsDir |-> child(i) \in DirNodes]])

\* The server has started on a tree whose files all have the largest size.
HistInit ==
    /\ path = <<>>
    /\ fsize = [f \in FileNodes |-> MaxSize]
    /\ noaccess = {}
    /\ poolSize = numWorkers
    /\ variant = "webhist"
    /\ InitScan
    /\ InitServer
    /\ InitFormat

\* The scans requested so far: appended or still running.
Started == Len(log) + Cardinality({c \in HClients : hpc[c] = "scanning"})

\* POST /api/scan, up to the return of scanDirectory's validation: a path
\* that fails it is answered with 400 at once.
ScanHandler(c, p) ==
    /\ hpc[c] = "idle"
    /\ Started < MaxScans
    /\ p \in PathsAt(Started + 1)
    /\ IF validate(p) = "ok"
       THEN /\ hpc' = [hpc EXCEPT ![c] = "scanning"]
            /\ hreq' = [hreq EXCEPT ![c] = p]
            /\ reply' = NoReply
       ELSE /\ reply' = [kind |-> "scan", path |-> p,
                         status |-> 400, error |-> validate(p)]
            /\ UNCHANGED <<hpc, hreq>>
    /\ UNCHANGED <<inputVars, scanVars, fmtVars, pc, err, result, items,
                   totalSize, history, clock, log, historyMutex>>

\* The rest of the scan, historyMutex.Lock() and the append.
HistAppend(c) ==
    /\ hpc[c] = "scanning"
    /\ historyMutex = ""
    /\ \E its \in ScanItems(hreq[c]) :
          LET rec == HistoryRecord(hreq[c], clock + 1, SumSizes(its), its)
          IN /\ history' = Append(history, rec)
             /\ log' = Append(log, rec)
    /\ clock' = clock + 1
    /\ historyMutex' = c
    /\ hpc' = [hpc EXCEPT ![c] = "appended"]
    /\ reply' = NoReply
    /\ UNCHANGED <<inputVars, scanVars, fmtVars, pc, err, result, items,
                   totalSize, hreq>>

\* The cap, historyMutex.Unlock(), the return and c.JSON(200, result).
HistTrim(c) ==
    /\ hpc[c] = "appended"
    /\ history' = Trim(history)
    /\ historyMutex' = ""
    /\ hpc' = [hpc EXCEPT ![c] = "idle"]
    /\ hreq' = [hreq EXCEPT ![c] = <<>>]
    /\ LET rec == history[Len(history)]
       IN reply' = [kind |-> "scan", path |-> hreq[c],
                    status |-> 200,
                    body |-> [Items |-> rec.Items, TotalSize |-> rec.TotalSize,
                              TotalSizeFormatted |-> formatSize(rec.TotalSize),
                              Path |-> hreq[c]]]
    /\ UNCHANGED <<inputVars, scanVars, fmtVars, pc, err, result, items,
                   totalSize, clock, log>>

\* A read lock that is granted while a writer holds the mutex.
RLockIgnored == TRUE

\* historyMutex.RLock() returns only while no writer holds the mutex.
RLockGranted == historyMutex = ""

\* historyCopy[len(history)-1-i] = item, for every i.
Reversed(h) == [i \in 1..Len(h) |-> h[Len(h) + 1 - i]]

\* GET /api/history.
ListHandler(c) ==
    /\ hpc[c] = "idle"
    /\ RLockGranted
    /\ reply' = [kind |-> "list", status |-> 200,
                 body |-> Reversed(history)]
    /\ UNCHANGED <<inputVars, scanVars, fmtVars, pc, err, result, items,
                   totalSize, history, clock, log, historyMutex, hpc, hreq>>

\* A search that returns the first match from the oldest end.
FindOldest(h, p) ==
    IF \E i \in 1..Len(h) : h[i].Path = p
    THEN CHOOSE i \in 1..Len(h) :
             h[i].Path = p /\ \A j \in 1..(i - 1) : h[j].Path # p
    ELSE 0

\* for i := len(history) - 1; i >= 0; i-- { if history[i].Path == req.Path
\* ...: the index of the first match from the newest end, 0 for none.
Find(h, p) ==
    IF \E i \in 1..Len(h) : h[i].Path = p
    THEN CHOOSE i \in 1..Len(h) :
             h[i].Path = p /\ \A j \in (i + 1)..Len(h) : h[j].Path # p
    ELSE 0

\* POST /api/history-item.  served names the record the loop stopped at.
LookupHandler(c, p) ==
    /\ hpc[c] = "idle"
    /\ RLockGranted
    /\ p \in HistPaths
    /\ LET i == Find(history, p)
       IN reply' = IF i = 0
                   THEN [kind |-> "lookup", path |-> p,
                         status |-> 404, error |-> "NotInHistory"]
                   ELSE [kind |-> "lookup", path |-> p,
                         status |-> 200, served |-> history[i],
                         body |-> [Items |-> history[i].Items,
                                   TotalSize |-> history[i].TotalSize,
                                   TotalSizeFormatted |-> history[i].SizeFormat,
                                   ScanTime |-> 0,
                                   Path |-> history[i].Path]]
    /\ UNCHANGED <<inputVars, scanVars, fmtVars, pc, err, result, items,
                   totalSize, history, clock, log, historyMutex, hpc, hreq>>

HistNext ==
    \/ \E c \in HClients, p \in HistPaths : ScanHandler(c, p)
    \/ \E c \in HClients : HistAppend(c)
    \/ \E c \in HClients : HistTrim(c)
    \/ \E c \in HClients : ListHandler(c)
    \/ \E c \in HClients, p \in HistPaths : LookupHandler(c, p)

HistSpec == HistInit /\ [][HistNext]_vars

\* The one-step account of a scan used by the server agrees with the
\* pipeline: for a path filepath.Clean leaves unchanged and a tree with
\* every entry readable, scanDirectory returns one of ScanItems(path).
ScanItemsAgree ==
    (pc = "done" /\ Clean(path) = path /\ noaccess = {}) =>
        /\ result.Items \in ScanItems(path)
        /\ result.TotalSize = SumSizes(result.Items)

(***************************************************************************)
(* Claims.                                                                 *)
(***************************************************************************)

\* C1: after a successful scan, for every directory D of the tree the
\* aggregate stored for D is the sum of the sizes of the queued files below
\* D at any depth, and the entry of the root is the sum over all queued
\* files.
C1_AggregateIsSumBelow ==
    pc = "done" =>
        \A e \in WalkedDirs : Get(dirSizes, e.p) = SizeUnder(e.n)

\* C2: for a fixed file tree the final aggregate map is the one a single
\* sequential pass over the walk produces, whatever the pool size (1 or
\* numWorkers) and whatever the interleaving of the workers with each other
\* and with the walker: no addition is lost or duplicated.
RECURSIVE CreditChain(_, _, _)
CreditChain(m, d, size) ==
    LET m2 == Put(m, d, Get(m, d) + size)
    IN IF d = rootDir \/ Dir(d) = d THEN m2 ELSE CreditChain(m2, Dir(d), size)

RECURSIVE SequentialScan(_, _)
SequentialScan(todo, m) ==
    IF Len(todo) = 0 THEN m
    ELSE LET e == Head(todo)
         IN IF e.n \in DirNodes
            THEN SequentialScan(
                     (IF e.n \in noaccess THEN <<>> ELSE ChildEntries(e)) \o Tail(todo),
                     IF e.p \in DOMAIN m THEN m ELSE Put(m, e.p, 0))
            ELSE IF e.n \in noaccess
                 THEN SequentialScan(Tail(todo), m)
                 ELSE SequentialScan(Tail(todo), CreditChain(m, Dir(e.p), fsize[e.n]))

C2_DeterministicAggregate ==
    pc \in {"reduce", "sort", "done"} =>
        dirSizes = SequentialScan(<<RootEntry>>, EmptyMap)

\* A full pool has finished a scan of /d in which all three files, each of
\* size 1, were credited.
C2_Witness ==
    /\ pc = "done"
    /\ poolSize = numWorkers
    /\ path = <<"/", "d">>
    /\ Cardinality(DOMAIN applied) = 3
    /\ dirSizes[rootDir] = 3

\* C3: the reducer reads the aggregates only when the walker has finished,
\* the queue is closed and empty, every worker has returned, the mutex is
\* free and every task ever queued has been applied.
C3_Barrier ==
    pc \in {"reduce", "sort", "done"} =>
        /\ walk = <<>>
        /\ closed
        /\ workChan = <<>>
        /\ \A w \in Workers : wpc[w] \in {"done", "off"}
        /\ wg = 0
        /\ dirMutex = 0
        /\ \A f \in DOMAIN fileSizes : Get(applied, f) >= 1

\* The reducer is about to read, after a full pool processed three tasks.
C3_Witness ==
    /\ pc = "reduce"
    /\ poolSize = numWorkers
    /\ Cardinality(DOMAIN fileSizes) = 3
    /\ dirSizes[rootDir] > 0

\* C4: every scan that passes validation terminates: the walker finishes,
\* the queue is closed, every worker returns and a result is returned, also
\* when the tree has more files than the queue holds.
C4_Terminates ==
    (pc = "setup") ~>
        /\ pc = "done"
        /\ walk = <<>>
        /\ closed
        /\ \A w \in Workers : wpc[w] \in {"done", "off"}
        /\ result # <<>>

\* The walker is blocked on a full queue with entries still to visit, every
\* worker of a full pool busy or waiting.
C4_Witness ==
    /\ pc = "walk"
    /\ Len(workChan) = QueueCap
    /\ walk # <<>>
    /\ Head(walk).n \in FileNodes
    /\ Head(walk).n \notin noaccess
    /\ poolSize = 1
    /\ wpc[1] \in {"lock", "load", "store"}

\* C5: every task published is consumed by exactly one worker and applied
\* exactly once: at every moment a published task is in the queue, or held
\* by one worker, or applied, and never two of these; when the scan returns
\* every published task has been received once and applied once.
Holders(f) == {w \in Workers : wtask[w].path = f}

InQueue(f) == {i \in 1..Len(workChan) : workChan[i].path = f}

C5_ExactlyOnce ==
    /\ \A f \in DOMAIN fileSizes :
          /\ Cardinality(InQueue(f)) + Cardinality(Holders(f)) + Get(applied, f) = 1
          /\ Get(received, f) = Cardinality(Holders(f)) + Get(applied, f)
    /\ DOMAIN received \subseteq DOMAIN fileSizes
    /\ DOMAIN applied \subseteq DOMAIN fileSizes
    /\ pc = "done" =>
          \A f \in DOMAIN fileSizes : received[f] = 1 /\ applied[f] = 1

\* Two workers hold different tasks at once while a third task waits in the
\* queue.
C5_Witness ==
    /\ \E v, w \in Workers :
          /\ v # w
          /\ wtask[v] # NoTask
          /\ wtask[w] # NoTask
    /\ workChan # <<>>

\* C6: in every result, totalSize is the sum of the sizes of the listed
\* items, and is the sum of the sizes of the files directly under the root
\* plus the aggregated sizes of the files under each direct sub-directory.
RECURSIVE SumChildren(_)
SumChildren(S) ==
    IF S = {} THEN 0
    ELSE LET x == CHOOSE x \in S : TRUE
         IN ChildSize(x) + SumChildren(S \ {x})

C6_TotalIsSumOfChildren ==
    pc = "done" =>
        /\ result.TotalSize = SumSizes(result.Items)
        /\ result.TotalSize = SumChildren(DirectChildren)

\* C7: for every validated path, absolute or relative, the listing holds
\* exactly the direct children of the root: every direct sub-directory and
\* every readable direct-child file once, with its path relative to the root
\* and the right flag; never the root or a deeper entry.
ExpectedListing ==
    {[Path |-> <<e.n[Len(e.n)]>>, IsDir |-> e.n \in DirNodes] : e \in DirectChildren}

C7_ListingIsDirectChildren ==
    pc = "done" =>
        /\ {[Path |-> result.Items[i].Path, IsDir |-> result.Items[i].IsDir] :
               i \in 1..Len(result.Items)} = ExpectedListing
        /\ Len(result.Items) = Cardinality(ExpectedListing)

\* C8: the returned listing is in descending order of size, and it holds
\* exactly the items collected from the two maps, each once.
C8_SortedPermutation ==
    pc = "done" =>
        /\ \A i \in 1..(Len(result.Items) - 1) :
              result.Items[i].Size >= result.Items[i + 1].Size
        /\ {result.Items[i] : i \in 1..Len(result.Items)}
              = {MakeItem(d, dirSizes[d], TRUE) : d \in ChildDirs}
                \cup {MakeItem(f, fileSizes[f], FALSE) : f \in ChildFiles}
        /\ Len(result.Items) = Cardinality(ChildDirs) + Cardinality(ChildFiles)

\* A listing of three items with a tie and a strict descent.
C8_Witness ==
    /\ pc = "done"
    /\ Len(result.Items) = 3
    /\ result.Items[1].Size > result.Items[2].Size
    /\ result.Items[2].Size = result.Items[3].Size

\* C9: an empty path is rejected with EmptyPath, a path that stat reports
\* as not existing with NotFound, a path that is not a directory with
\* NotADirectory; and a rejected scan has started no worker, made no queue
\* or map, and left the history log as it was.
C9_RejectsBeforeTraversal ==
    /\ pc # "start" =>
          /\ path = <<>> => pc = "failed" /\ err = "EmptyPath"
          /\ path = <<"/", "x">> => pc = "failed" /\ err = "NotFound"
          /\ path = <<"a">> => pc = "failed" /\ err = "NotADirectory"
    /\ pc = "failed" =>
          /\ err \in {"EmptyPath", "NotFound", "NotADirectory"}
          /\ result = <<>>
          /\ ~allocated
          /\ \A w \in Workers : wpc[w] = "off"
          /\ wg = 0
          /\ workChan = <<>>
          /\ dirSizes = EmptyMap
          /\ fileSizes = EmptyMap
          /\ history = <<>>

\* The scan of the regular file "a" has been rejected.
C9_Witness == pc = "failed" /\ err = "NotADirectory" /\ path = <<"a">>

\* C10: for every non-empty path and every outcome of the initial stat,
\* scanDirectory returns exactly one of a result and an error, and does not
\* crash.
C10_ResultXorError ==
    (Returned /\ path # <<>>) =>
        /\ pc # "panic"
        /\ (result # <<>>) # (err # "")

\* C11: a per-entry failure never fails the scan.  A file whose metadata
\* cannot be read, and every file below a directory that cannot be listed,
\* is never recorded in fileSizes, never queued and never held by a worker;
\* a scan that passed validation never ends in an error; and the successful
\* result comes with aggregates that hold exactly the other files: for every
\* directory walked, the entry under its cleaned path is the sum of the
\* sizes of the readable files below it.
QueuedPaths == {e.p : e \in QueuedFiles}

C11_PerEntryFailureSkipped ==
    /\ DOMAIN fileSizes \subseteq QueuedPaths
    /\ \A i \in 1..Len(workChan) : workChan[i].path \in QueuedPaths
    /\ \A w \in Workers : wtask[w] # NoTask => wtask[w].path \in QueuedPaths
    /\ allocated => pc \notin {"failed", "panic"} /\ err = ""
    /\ pc = "done" =>
          /\ result # <<>>
          /\ DOMAIN fileSizes = QueuedPaths
          /\ \A e \in QueuedFiles : fileSizes[e.p] = fsize[e.n]
          /\ \A e \in WalkedDirs : Get(dirSizes, Clean(e.p)) = SizeUnder(e.n)

\* A scan of /d has succeeded although the metadata of the one-byte file a
\* could not be read; the two other files were counted.
C11_Witness ==
    /\ pc = "done"
    /\ path = <<"/", "d">>
    /\ noaccess = {<<"d", "a">>}
    /\ fsize[<<"d", "a">>] = 1
    /\ result.TotalSize = 2
    /\ dirSizes[rootDir] = 2

\* The same with the directory /d/s/t unlistable: its file e is left out.
C11_WitnessDir ==
    /\ pc = "done"
    /\ path = <<"/", "d">>
    /\ noaccess = {<<"d", "s", "t">>}
    /\ fsize[<<"d", "s", "t", "e">>] = 1
    /\ result.TotalSize = 2
    /\ <<"/", "d", "/", "s", "/", "t">> \in DOMAIN dirSizes

\* C13: for every valid scan target, in whatever spelling, the upward walk
\* of a task credits the directories from the file's parent up to the scan
\* root and stops there: every key of dirSizes, and every directory a worker
\* is about to credit, names the scanned root or a directory below it.
WithinRoot(d) == Node(d) = RootEntry.n \/ IsUnder(Node(d), RootEntry.n)

C13_CreditsStayWithinRoot ==
    /\ \A k \in DOMAIN dirSizes : WithinRoot(k)
    /\ \A w \in Workers : wpc[w] \in {"load", "store"} => WithinRoot(currentDir[w])

\* C14: scanning an empty directory never fails; it returns an empty item
\* list and a total of 0, and the history log has got one record for it,
\* with the path as requested, no items and a total of 0.
EmptyRoot == Stat(path) = "dir" /\ ChildNames(Node(path)) = <<>>

C14_EmptyDirectory ==
    EmptyRoot =>
        /\ pc \notin {"failed", "panic"}
        /\ err = ""
        /\ pc = "done" =>
              /\ result.Items = <<>>
              /\ result.TotalSize = 0
              /\ Len(history) = 1
              /\ history[1].Path = path
              /\ history[1].Items = <<>>
              /\ history[1].TotalSize = 0

\* The scan of the empty directory u has returned.
C14_Witness ==
    /\ path = <<"u">>
    /\ pc = "done"
    /\ result.Items = <<>>
    /\ Len(history) = 1

\* C18: a successful scan has appended exactly one history record, with the
\* requested path and the item list, total size and formatted size of the
\* result returned; a scan that fails, and a scan still running, has left
\* the log as it was.
C18_OneRecordPerScan ==
    /\ pc = "done" =>
          /\ Len(history) = 1
          /\ log = history
          /\ result.Path = path
          /\ history[1].Path = path
          /\ history[1].Items = result.Items
          /\ history[1].TotalSize = result.TotalSize
          /\ history[1].SizeFormat = result.TotalSizeFormatted
    /\ pc # "done" => history = <<>> /\ log = <<>>

\* The scan of /d has returned its three items and recorded them.
C18_Witness ==
    /\ pc = "done"
    /\ path = <<"/", "d">>
    /\ Len(result.Items) = 3
    /\ history[1].Items = result.Items
    /\ history[1].TotalSize = 3

\* C20: dirMutex is held for the whole upward walk of a task.  The workers
\* inside an upward walk are exactly the holder of the mutex, so there is at
\* most one; the walker registers a directory only while the mutex is free
\* and no worker is inside a walk; and whenever the mutex is free every
\* directory walked holds, under its cleaned path, the sum of the sizes of
\* the tasks whose upward walk is complete and whose file lies below it: a
\* task is credited to all of its ancestors or to none.
InWalk == {w \in Workers : wpc[w] \in {"load", "store"}}

AppliedUnder(d) ==
    SumFiles({e \in QueuedFiles : IsUnder(e.n, d) /\ Get(applied, e.p) = 1})

WalkerRegisters ==
    /\ pc = "walk"
    /\ walk # <<>>
    /\ Head(walk).n \in DirNodes
    /\ walk' # walk

C20_LockSpansUpwardWalk ==
    /\ [](/\ InWalk = (IF dirMutex = 0 THEN {} ELSE {dirMutex})
          /\ Cardinality(InWalk) <= 1
          /\ dirMutex = 0 =>
                \A e \in WalkedDirs :
                    Get(dirSizes, Clean(e.p)) = AppliedUnder(e.n))
    /\ [][WalkerRegisters => dirMutex = 0 /\ InWalk = {}]_vars

\* A worker is past the parent directory of its file, inside the walk, while
\* another worker waits for the mutex and the walker's next entry is a
\* directory to register.
C20_Witness ==
    /\ pc = "walk"
    /\ walk # <<>>
    /\ Head(walk).n \in DirNodes
    /\ \E w1, w2 \in Workers :
          /\ wpc[w1] = "store"
          /\ currentDir[w1] # Dir(wtask[w1].path)
          /\ wtask[w1].size > 0
          /\ wpc[w2] = "lock"

\* C19: formatSize picks the unit by the 1024-based thresholds: below 1024
\* the exact integer with B, below 1024^2 KB, below 1024^3 MB, otherwise GB,
\* each of the three with one decimal digit, the number printed being within
\* half a tenth of bytes / unit (checked exactly for KB and MB, and to within
\* the 1024 bytes dropped for GB); and 0 gives "0 B", 1023 "1023 B", 1536
\* "1.5 KB", 1073741824 "1.0 GB".
UnitOf(bytes) ==
    IF bytes < 1024 THEN "B"
    ELSE IF bytes < 1024 * 1024 THEN "KB"
    ELSE IF bytes < 1024 * 1024 * 1024 THEN "MB"
    ELSE "GB"

Shown(whole, tenths, unit) == [whole |-> whole, tenths |-> tenths, unit |-> unit]

\* 20 * |bytes / unitBytes - t / 10| <= 1, for t the number printed in tenths.
NearestTenth(bytes, unitBytes, t) ==
    LET d == t - 10 * (bytes \div unitBytes)
        r == bytes % unitBytes
    IN /\ (2 * d - 1) * unitBytes <= 20 * r
       /\ 20 * r <= (2 * d + 1) * unitBytes

C19_UnitByThresholds ==
    fmtOut # NoOutput =>
        /\ fmtOut.unit = UnitOf(fmtIn)
        /\ fmtOut.unit = "B" => fmtOut.whole = fmtIn /\ fmtOut.tenths = -1
        /\ fmtOut.unit # "B" => fmtOut.tenths \in 0..9 /\ fmtOut.whole >= 1
        /\ fmtOut.unit = "KB" =>
              NearestTenth(fmtIn, 1024, 10 * fmtOut.whole + fmtOut.tenths)
        /\ fmtOut.unit = "MB" =>
              NearestTenth(fmtIn, 1024 * 1024, 10 * fmtOut.whole + fmtOut.tenths)
        /\ fmtOut.unit = "GB" =>
              LET t == 10 * fmtOut.whole + fmtOut.tenths
                  kb == fmtIn \div 1024
              IN /\ NearestTenth(kb + 1, 1024 * 1024, t) \/ NearestTenth(kb, 1024 * 1024, t)
        /\ fmtIn = 0 => fmtOut = Shown(0, -1, "B")
        /\ fmtIn = 1023 => fmtOut = Shown(1023, -1, "B")
        /\ fmtIn = 1536 => fmtOut = Shown(1, 5, "KB")
        /\ fmtIn = 1073741824 => fmtOut = Shown(1, 0, "GB")

\* formatSize(1536) has returned "1.5 KB".
C19_Witness == fmtIn = 1536 /\ fmtOut = Shown(1, 5, "KB")

\* C15: after any sequence of scans, whenever no append is under way the
\* history holds at most 50 records, and they are the most recent records
\* appended, in append order; a step changes the history only by appending
\* one record at the end or by evicting the single oldest one.
LastOf(l, n) == SubSeq(l, Len(l) - n + 1, Len(l))

C15_RetainsFiftyMostRecent ==
    /\ [](historyMutex = "" =>
             /\ Len(history) <= historyCap
             /\ Len(history) = (IF Len(log) < historyCap THEN Len(log) ELSE historyCap)
             /\ history = LastOf(log, Len(history)))
    /\ [][\/ history' = history
          \/ \E rec \in {log'[Len(log')]} : history' = Append(history, rec)
          \/ Len(history) = historyCap + 1 /\ history' = Tail(history)]_vars

\* Fifty-two scans have been appended: the log holds the third to the
\* fifty-second.
C15_Witness ==
    /\ historyMutex = ""
    /\ Len(log) = historyCap + 2
    /\ Len(history) = historyCap
    /\ history[1].ScanTime = 3
    /\ history[historyCap].ScanTime = historyCap + 2

\* C16: once 51 scans have been appended, the record of the first scan is no
\* longer in the history, a lookup is never answered from it, and a lookup
\* of its path is answered 404 unless a later retained scan has that path.
Retained(p) == \E i \in 1..Len(history) : history[i].Path = p

C16_OldestNotRetrievable ==
    (Len(log) > historyCap /\ historyMutex = "") =>
        /\ \A i \in 1..Len(history) : history[i] # log[1]
        /\ (reply.kind = "lookup" /\ reply.status = 200) => reply.served # log[1]
        /\ (reply.kind = "lookup" /\ reply.path = log[1].Path /\ ~Retained(log[1].Path))
              => reply.status = 404

\* The first scan was of the rare path, fifty scans of the common path
\* followed, and a lookup of the rare path has just been answered 404.
C16_Witness ==
    /\ Len(log) = historyCap + 1
    /\ log[1].Path = RarePath
    /\ reply.kind = "lookup"
    /\ reply.path = RarePath
    /\ reply.status = 404

\* C17: a list response holds every retained record once, most recent
\* first; a lookup response for path X is built from the most recently
\* appended retained record whose path equals X, and is 404 exactly when no
\* retained record has that path; a query step changes neither the history
\* nor the mutex.
MostRecent(p) ==
    CHOOSE i \in 1..Len(history) :
        history[i].Path = p /\ \A j \in 1..Len(history) : history[j].Path = p => j <= i

C17_QueriesAnswerFromLog ==
    /\ [](/\ reply.kind = "list" =>
                /\ reply.status = 200
                /\ Len(reply.body) = Len(history)
                /\ \A i \in 1..Len(history) :
                      reply.body[i] = history[Len(history) + 1 - i]
          /\ reply.kind = "lookup" =>
                /\ reply.status = 404 <=> ~Retained(reply.path)
                /\ reply.status = 200 <=> Retained(reply.path)
                /\ reply.status = 200 =>
                      LET rec == history[MostRecent(reply.path)]
                      IN /\ reply.served = rec
                         /\ reply.body.Path = reply.path
                         /\ reply.body.Items = rec.Items
                         /\ reply.body.TotalSize = rec.TotalSize
                         /\ reply.body.TotalSizeFormatted = rec.SizeFormat)
    /\ [][reply'.kind \in {"list", "lookup"} =>
             /\ history' = history
             /\ log' = log
             /\ historyMutex' = historyMutex]_vars

\* The rare path was scanned twice; a lookup has been answered from the
\* second record, and not from the first.
C17_Witness ==
    /\ Len(history) > 2
    /\ history[1].Path = RarePath
    /\ history[2].Path = RarePath
    /\ reply.kind = "lookup"
    /\ reply.path = RarePath
    /\ reply.status = 200
    /\ reply.served = history[2]
    /\ reply.body.Items = history[2].Items

\* A list response with three records, the newest first.
C17_WitnessList ==
    /\ reply.kind = "list"
    /\ Len(reply.body) = 3
    /\ reply.body[1].ScanTime = 3
    /\ reply.body[3].ScanTime = 1

\* C21: when a worker credits a directory the walker has already registered
\* it: the key a worker is about to add to exists in dirSizes, so a worker
\* never creates a key.
C21_WorkerNeverCreatesKey ==
    \A w \in Workers :
        wpc[w] \in {"load", "store"} => currentDir[w] \in DOMAIN dirSizes

\* C22: the walker does no aggregation.  Its step on a directory leaves the
\* value of every key already present as it was and adds at most the key of
\* that directory, with the value 0; its steps on files leave dirSizes alone.
WalkerSteps == pc = "walk" /\ walk # <<>> /\ walk' # walk

C22_WalkerOnlyRegisters ==
    [][WalkerSteps =>
          /\ \A k \in DOMAIN dirSizes :
                k \in DOMAIN dirSizes' /\ dirSizes'[k] = dirSizes[k]
          /\ DOMAIN dirSizes' \subseteq DOMAIN dirSizes \cup {Head(walk).p}
          /\ \A k \in DOMAIN dirSizes' \ DOMAIN dirSizes : dirSizes'[k] = 0
          /\ Head(walk).n \notin DirNodes => dirSizes' = dirSizes]_vars

\* The walker has registered the directory s after a worker had added the
\* size of the file a to the total of the root /d.
C22_Witness ==
    /\ pc = "walk"
    /\ path = <<"/", "d">>
    /\ Len(walk) > 0
    /\ Head(walk).p = <<"/", "d", "/", "s", "/", "c">>
    /\ dirSizes[rootDir] = 1
    /\ Get(dirSizes, <<"/", "d", "/", "s">>) = 0
    /\ <<"/", "d", "/", "s">> \in DOMAIN dirSizes

\* C23: the queue is closed once, after the walker has emitted every task.
\* The queue never holds more tasks than its capacity; once it is closed the
\* walk is over and it stays closed; a step closes it only when it is open
\* and WalkDir has returned; a task is sent only on an open queue with room;
\* and a worker has returned only if the queue is closed and drained.
C23_ClosedOnceAfterWalk ==
    /\ [](/\ Len(workChan) <= QueueCap
          /\ closed => walk = <<>> /\ pc \notin {"start", "setup", "walk"}
          /\ pc \in {"reduce", "sort", "done"} => closed
          /\ \A w \in Workers : wpc[w] = "done" => closed /\ workChan = <<>>)
    /\ [][/\ closed => closed'
          /\ closed' # closed => ~closed /\ pc = "walk" /\ walk = <<>>
          /\ Len(workChan') > Len(workChan) => ~closed /\ Len(workChan) < QueueCap
          /\ \A w \in Workers :
                (wpc'[w] = "done" /\ wpc[w] # "done") => closed /\ workChan = <<>>]_vars

\* The queue is closed and still full: the last task waits for a worker that
\* is free to receive it, while another worker is busy with an earlier one.
C23_Witness ==
    /\ pc = "wait"
    /\ closed
    /\ Len(workChan) = QueueCap
    /\ \E w \in Workers : wpc[w] = "recv"
    /\ \E w \in Workers : wpc[w] \in {"lock", "load", "store"}

\* C27: in every successful result, for every validated path, totalSize (the
\* sum of the sizes of the items listed) equals the full-tree aggregate
\* stored under the key of the root, dirSizes[rootDir].
C27_TotalEqualsRootAggregate ==
    pc = "done" =>
        /\ rootDir \in DOMAIN dirSizes
        /\ result.TotalSize = dirSizes[rootDir]
        /\ result.TotalSize = SumSizes(result.Items)

\* The scan of /d with three one-byte files, one of them two levels down,
\* has returned the total 3.
C27_Witness ==
    /\ pc = "done"
    /\ path = <<"/", "d">>
    /\ noaccess = {}
    /\ result.TotalSize = 3
    /\ dirSizes[rootDir] = 3
    /\ Len(result.Items) = 3

\* C28: during a scan, whenever dirMutex is free, the aggregate stored for
\* every directory D walked equals the sum of the sizes of the tasks already
\* fully processed whose file lies under D; so it is not negative and not
\* more than the sum of the files queued so far under D.
QueuedUnder(d) ==
    SumFiles({e \in QueuedFiles : IsUnder(e.n, d) /\ e.p \in DOMAIN fileSizes})

C28_AggregateIsAppliedSum ==
    (allocated /\ dirMutex = 0) =>
        \A e \in WalkedDirs :
            /\ Get(dirSizes, e.p) = AppliedUnder(e.n)
            /\ Get(dirSizes, e.p) >= 0
            /\ Get(dirSizes, e.p) <= QueuedUnder(e.n)

\* C24: the upward walk of every task ends and releases dirMutex, for every
\* root spelling.  Each turn of the loop that goes on moves to a directory
\* with a strictly shorter chain of parents, and never past the key of the
\* root; the walk ends at the root or at the first directory that is its own
\* parent, with the mutex released; and a worker inside a walk always gets
\* out of it.
RECURSIVE Rank(_)
Rank(d) == IF Dir(d) = d THEN 0 ELSE 1 + Rank(Dir(d))

C24_UpwardWalkTerminates ==
    /\ [][\A w \in Workers :
             wpc[w] = "store" /\ wpc'[w] # "store" =>
                IF wpc'[w] = "load"
                THEN /\ currentDir[w] # rootDir
                     /\ currentDir'[w] = Dir(currentDir[w])
                     /\ Rank(currentDir'[w]) < Rank(currentDir[w])
                     /\ dirMutex' = w
                ELSE /\ currentDir[w] = rootDir \/ Dir(currentDir[w]) = currentDir[w]
                     /\ dirMutex = w
                     /\ dirMutex' = 0]_vars
    /\ \A w \in Workers :
          (wpc[w] \in {"load", "store"}) ~> (wpc[w] = "recv" /\ dirMutex # w)

\* The scan root ./s is never met on the chain s, .: a worker is about to
\* credit the directory "." that is its own parent.
C24_Witness ==
    /\ path = <<".", "/", "s">>
    /\ \E w \in Workers :
          /\ wpc[w] = "store"
          /\ currentDir[w] = <<".">>
          /\ Dir(currentDir[w]) = currentDir[w]
          /\ dirMutex = w

\* C26: once the worker pool has been started, scanDirectory returns only
\* with the queue closed, and every worker started eventually returns: none
\* stays blocked on an open queue.
AllWorkersReturned == \A w \in Workers : wpc[w] \in {"done", "off"}

C26_NoWorkerLeftBlocked ==
    /\ []((allocated /\ Returned) => closed)
    /\ allocated ~> (closed /\ AllWorkersReturned)
    /\ []((closed /\ AllWorkersReturned) => wg = 0 /\ workChan = <<>>)

\* The scan of the empty directory u has returned: the four workers, which
\* never received a task, were released by the close.
C26_Witness ==
    /\ path = <<"u">>
    /\ pc = "done"
    /\ poolSize = numWorkers
    /\ closed
    /\ AllWorkersReturned
    /\ received = EmptyMap

\* C25: with scans and history reads running concurrently, the append and
\* the cap are one atomic change for readers and for other appenders.  At
\* most one request is between its append and its cap, and it holds the
\* mutex; no list response has more than 50 records and each is the 50 most
\* recent appends, never the log between an append and its eviction; a
\* lookup is served from those records only; each scan that takes the lock
\* adds exactly one record at the end of the full log, no other step changes
\* it, and the records are in the order in which the lock was taken.
Appending == {c \in HClients : hpc[c] = "appended"}

RetainedLog ==
    LastOf(log, IF Len(log) < historyCap THEN Len(log) ELSE historyCap)

C25_AppendAndTrimAtomic ==
    /\ [](/\ Cardinality(Appending) <= 1
          /\ Appending = (IF historyMutex = "" THEN {} ELSE {historyMutex})
          /\ reply.kind = "list" =>
                /\ Len(reply.body) <= historyCap
                /\ reply.body = Reversed(RetainedLog)
          /\ (reply.kind = "lookup" /\ reply.status = 200) =>
                \E i \in 1..Len(RetainedLog) : RetainedLog[i] = reply.served
          /\ Len(log) = clock
          /\ \A i \in 1..Len(log) : log[i].ScanTime = i)
    /\ [][IF \E c \in HClients : hpc[c] = "scanning" /\ hpc'[c] = "appended"
          THEN \E c \in HClients :
                  /\ hpc[c] = "scanning" /\ hpc'[c] = "appended"
                  /\ historyMutex = ""
                  /\ Len(log') = Len(log) + 1
                  /\ SubSeq(log', 1, Len(log)) = log
                  /\ log'[Len(log')].Path = hreq[c]
                  /\ history' = Append(history, log'[Len(log')])
          ELSE log' = log]_vars

\* A request holds the mutex between its append and the cap, with 51
\* records in the log, while the other request has a scan waiting for the
\* lock.
C25_Witness ==
    /\ Len(history) = historyCap + 1
    /\ \E c1, c2 \in HClients :
          /\ historyMutex = c1
          /\ hpc[c1] = "appended"
          /\ hpc[c2] = "scanning"

\* Both requests were scanning at once and both records are in the log.
C25_WitnessBoth ==
    /\ Len(log) = 2
    /\ log[1].Path = RarePath
    /\ log[2].Path = CommonPath
    /\ reply.kind = "list"
    /\ Len(reply.body) = 2

\* C30: for every byte count, the number formatSize prints in front of KB or
\* MB, rounded to one decimal, is below 1024, and the unit printed is the
\* one the 1024-based thresholds select for the exact byte count.
C30_PrintedNumberBelow1024 ==
    fmtOut # NoOutput =>
        /\ fmtOut.unit = UnitOf(fmtIn)
        /\ fmtOut.unit \in {"KB", "MB"} => fmtOut.whole < 1024

\* C29: the three programs agree.  For the same tree and the same validated
\* path each returns, in descending order of size, exactly the entries
\* (relative path, size, is-directory) that a single sequential pass of the
\* pipeline over the inputs yields, whichever program runs; the two web
\* servers return the same total and path, and differ only in that the
\* history-keeping one has appended one record with these items.
Triple(it) == [Path |-> it.Path, Size |-> it.Size, IsDir |-> it.IsDir]

ReferenceDirSizes == SequentialScan(<<RootEntry>>, EmptyMap)

ReferenceEntries ==
    {[Path |-> Rel(rootDir, d), Size |-> ReferenceDirSizes[d], IsDir |-> TRUE] :
        d \in {k \in DOMAIN ReferenceDirSizes : k # rootDir /\ Dir(k) = rootDir}}
    \cup
    {[Path |-> Rel(rootDir, e.p), Size |-> fsize[e.n], IsDir |-> FALSE] :
        e \in {f \in QueuedFiles : Dir(f.p) = rootDir}}

C29_ImplementationsAgree ==
    pc = "done" =>
        /\ {Triple(result.Items[i]) : i \in 1..Len(result.Items)} = ReferenceEntries
        /\ Len(result.Items) = Cardinality(ReferenceEntries)
        /\ \A i \in 1..(Len(result.Items) - 1) :
              result.Items[i].Size >= result.Items[i + 1].Size
        /\ variant # "cli" =>
              /\ result.TotalSize = SumSizes(result.Items)
              /\ result.Path = path
        /\ variant = "webhist" =>
              /\ Len(history) = 1
              /\ history[1].Items = result.Items
        /\ variant # "webhist" => history = <<>> /\ log = <<>> /\ clock = 0

\* The command-line tool has printed the three entries of /d, largest first.
C29_Witness ==
    /\ variant = "cli"
    /\ pc = "done"
    /\ path = <<"/", "d">>
    /\ noaccess = {}
    /\ Len(result.Items) = 3
    /\ result.Items[1].Size = 2
    /\ result.Items[1].IsDir

\* The web server without history has returned the same entries.
C29_WitnessWeb ==
    /\ variant = "web"
    /\ pc = "done"
    /\ path = <<"/", "d">>
    /\ noaccess = {}
    /\ Len(result.Items) = 3
    /\ result.TotalSize = 3
    /\ history = <<>>

====
